---- MODULE Spec2Model ----
(***************************************************************************)
(* Model of the authentication glue layer: the store adapter              *)
(* (customAdapter), the NextAuth route handler with its signIn callback,  *)
(* and the PATCH /api/users/{userId} endpoint.                             *)
(*                                                                         *)
(* Conventions.  An optional value (T | undefined) is a sequence of       *)
(* length 0 (undefined) or 1 (the value).  An absent or empty string is   *)
(* "" (both are falsy in the source).  A set stands for a list whose      *)
(* order the code never reads.                                            *)
(***************************************************************************)
EXTENDS Integers, Sequences, FiniteSets, TLC

VARIABLES
    env,                  \* the configuration read through @typebot.io/env
    users,                \* p.user rows
    workspaces,           \* p.workspace rows
    members,              \* p.memberInWorkspace rows
    invitations,          \* p.invitation rows (pending direct invitations)
    workspaceInvitations, \* p.workspaceInvitation rows (pending)
    collaborations,       \* p.collaboratorsOnTypebots rows
    cuLast,               \* the last createUser call: its input and what it did
    verificationTokens,   \* p.verificationToken rows
    vtCreated,            \* per (identifier, token): how often a row was created
    vtCalls,              \* the useVerificationToken calls in progress or returned
    accounts,             \* p.account rows
    acLast,               \* the last linkAccount / unlinkAccount call
    si,                   \* the signIn callback's current invocation
    now,                  \* the clock the rate limiter reads
    rlCount,              \* the rate limiter's counters, per identifier and window
    admitted,             \* history: the (address, window) pairs with an admitted e-mail sign-in POST
    hLast,                \* the last request of the auth route handler
    puLast,               \* the last request of the user endpoint
    patchCount,           \* requests of the user endpoint handled so far
    azLast                \* the last authorize call of the credentials provider

storeVars == <<users, workspaces, members, invitations, workspaceInvitations,
               collaborations>>
cuVars == <<storeVars, cuLast>>
vtVars == <<verificationTokens, vtCreated, vtCalls>>
acVars == <<accounts, acLast>>
siVars == <<si>>
hVars == <<now, rlCount, admitted, hLast>>
puVars == <<puLast, patchCount>>
azVars == <<azLast>>
vars == <<env, cuVars, vtVars, acVars, siVars, hVars, puVars, azVars>>

----------------------------------------------------------------------------
(* Optional values *)

None == <<>>
Some(x) == <<x>>
IsDefined(o) == Len(o) = 1
ValueOf(o) == o[1]

(* The elements of a list *)
Elems(s) == {s[i] : i \in DOMAIN s}

----------------------------------------------------------------------------
(* Configuration *)

AdminEmail == "root@corp.io"
NewEmail == "ann@corp.io"
DisposableEmail == "bob@trash.io"

AdminEmailSettings == {None, Some(<<>>), Some(<<AdminEmail>>)}
RequiredGroupSettings == {None, Some(<<>>), Some(<<"b", "c">>)}

EnvDefault ==
    [DISABLE_SIGNUP |-> FALSE,
     ADMIN_EMAIL |-> None,
     USER_CREATED_WEBHOOK_URL |-> FALSE,
     REJECT_DISPOSABLE_EMAILS |-> FALSE,
     GITLAB_REQUIRED_GROUPS |-> None,
     REDIS_URL |-> FALSE,
     NEXT_PUBLIC_E2E_TEST |-> FALSE,
     TYPEBOT_CODE |-> ""]

----------------------------------------------------------------------------
(* The store adapter: verification tokens *)

NumCallers == 2

Callers == 1..NumCallers

\* The (identifier, token) pairs: an e-mail address and a 6-digit code.
TokenKeys == [identifier : {NewEmail}, token : {"111111", "222222"}]

TokenRow(key) == [identifier |-> key.identifier, token |-> key.token, expires |-> "t+5min"]
KeyOf(row) == [identifier |-> row.identifier, token |-> row.token]

VtIdle ==
    [pc |-> "idle", key |-> [identifier |-> "", token |-> ""], afterCreate |-> FALSE,
     fault |-> FALSE, error |-> "", result |-> "pending",
     row |-> [identifier |-> "", token |-> "", expires |-> ""]]

IdleVerificationTokens ==
    /\ verificationTokens = {}
    /\ vtCreated = [k \in TokenKeys |-> 0]
    /\ vtCalls = [c \in Callers |-> VtIdle]

MaxTokenCreates == 1

\* createVerificationToken(data): p.verificationToken.create({ data }).  The
\* (identifier, token) pair is the row's unique key.
createVerificationToken ==
    \E key \in TokenKeys :
        /\ vtCreated[key] < MaxTokenCreates
        /\ ~\E r \in verificationTokens : KeyOf(r) = key
        /\ verificationTokens' = verificationTokens \cup {TokenRow(key)}
        /\ vtCreated' = [vtCreated EXCEPT ![key] = @ + 1]
        /\ UNCHANGED <<env, cuVars, vtCalls, acVars, siVars, hVars, puVars, azVars>>

\* useVerificationToken(identifier_token) is entered.
useVerificationTokenCall(c) ==
    \E key \in TokenKeys :
        /\ vtCalls[c].pc = "idle"
        /\ vtCalls' = [vtCalls EXCEPT ![c] = [VtIdle EXCEPT !.pc = "delete", !.key = key]]
        /\ UNCHANGED <<env, cuVars, verificationTokens, vtCreated, acVars, siVars, hVars, puVars, azVars>>

\* Codes of store faults that are not "record not found".
StoreFaultCodes == {"P1001"}

\* await p.verificationToken.delete({ where: { identifier_token } }): one
\* atomic store operation.  It removes and returns the row, or rejects with
\* P2025 when no row matches, or rejects with another code on a store fault.
useVerificationTokenDelete(c) ==
    /\ vtCalls[c].pc = "delete"
    /\ LET key == vtCalls[c].key
           hit == {r \in verificationTokens : KeyOf(r) = key}
           seen == [vtCalls[c] EXCEPT !.afterCreate = vtCreated[key] > 0]
       IN \/ \E code \in StoreFaultCodes :
                 /\ vtCalls' = [vtCalls EXCEPT ![c] =
                        [seen EXCEPT !.pc = "catch", !.fault = TRUE, !.error = code]]
                 /\ UNCHANGED verificationTokens
          \/ /\ hit # {}
             /\ verificationTokens' = verificationTokens \ hit
             /\ vtCalls' = [vtCalls EXCEPT ![c] =
                    [seen EXCEPT !.pc = "done", !.result = "record",
                                 !.row = CHOOSE r \in hit : TRUE]]
          \/ /\ hit = {}
             /\ vtCalls' = [vtCalls EXCEPT ![c] =
                    [seen EXCEPT !.pc = "catch", !.error = "P2025"]]
             /\ UNCHANGED verificationTokens
    /\ UNCHANGED <<env, cuVars, vtCreated, acVars, siVars, hVars, puVars, azVars>>

\* A variant of useVerificationTokenCatch: every rejection is rethrown.
useVerificationTokenCatchRethrow(c) ==
    /\ vtCalls[c].pc = "catch"
    /\ vtCalls' = [vtCalls EXCEPT ![c] = [@ EXCEPT !.pc = "done", !.result = "throw"]]
    /\ UNCHANGED <<env, cuVars, verificationTokens, vtCreated, acVars, siVars, hVars, puVars, azVars>>

\* catch (error): P2025 becomes null, anything else is rethrown.
useVerificationTokenCatch(c) ==
    /\ vtCalls[c].pc = "catch"
    /\ vtCalls' = [vtCalls EXCEPT ![c] =
           [@ EXCEPT !.pc = "done",
                     !.result = IF vtCalls[c].error = "P2025" THEN "null" ELSE "throw"]]
    /\ UNCHANGED <<env, cuVars, verificationTokens, vtCreated, acVars, siVars, hVars, puVars, azVars>>

----------------------------------------------------------------------------
(* The store adapter: linkAccount and unlinkAccount *)

AccountData ==
    [provider : {"github", "gitlab"}, providerAccountId : {"42", "77"},
     userId : {"u1", "u2"}, access_token : {"at1", "at2"}]

AccountKeys == [provider : {"github", "gitlab"}, providerAccountId : {"42", "77"}]

AccountKeyOf(row) ==
    [provider |-> row.provider, providerAccountId |-> row.providerAccountId]

AcIdle ==
    [op |-> "none", key |-> [provider |-> "", providerAccountId |-> ""],
     userId |-> "", access_token |-> "", threw |-> "", before |-> {}]

IdleAccounts ==
    /\ accounts = {}
    /\ acLast = AcIdle

\* p.account.create rejects a row whose (provider, providerAccountId) pair is
\* taken: the pair is the table's unique key (provider_providerAccountId).
AccountCreateConflict(data) ==
    \E a \in accounts : AccountKeyOf(a) = AccountKeyOf(data)

AcCall(op, data) ==
    [AcIdle EXCEPT !.op = op, !.key = AccountKeyOf(data), !.userId = data.userId,
                   !.access_token = data.access_token, !.before = accounts]

\* A variant of linkAccount: the row is written with an upsert.
linkAccountUpsert ==
    \E data \in AccountData :
        /\ accounts' = {a \in accounts : AccountKeyOf(a) # AccountKeyOf(data)} \cup {data}
        /\ acLast' = AcCall("linkAccount", data)
        /\ UNCHANGED <<env, cuVars, vtVars, siVars, hVars, puVars, azVars>>

\* linkAccount(data): await p.account.create({ data: {...} }); a rejection
\* of the store propagates.
linkAccount ==
    \E data \in AccountData :
        /\ IF AccountCreateConflict(data)
           THEN /\ acLast' = [AcCall("linkAccount", data) EXCEPT !.threw = "P2002"]
                /\ UNCHANGED accounts
           ELSE /\ accounts' = accounts \cup {data}
                /\ acLast' = AcCall("linkAccount", data)
        /\ UNCHANGED <<env, cuVars, vtVars, siVars, hVars, puVars, azVars>>

\* unlinkAccount(provider_providerAccountId): await p.account.delete({ where });
\* the store rejects with P2025 when no row matches.
unlinkAccount ==
    \E key \in AccountKeys :
        LET hit == {a \in accounts : AccountKeyOf(a) = key}
            call == [AcIdle EXCEPT !.op = "unlinkAccount", !.key = key,
                                   !.before = accounts]
        IN /\ IF hit = {}
              THEN /\ acLast' = [call EXCEPT !.threw = "P2025"]
                   /\ UNCHANGED accounts
              ELSE /\ accounts' = accounts \ hit
                   /\ acLast' = call
           /\ UNCHANGED <<env, cuVars, vtVars, siVars, hVars, puVars, azVars>>

----------------------------------------------------------------------------
(* The store adapter: createUser *)

\* A user row as p.user.create writes it.
UserRow(id, email, name) ==
    [id |-> id, email |-> email, name |-> name, image |-> "", company |-> "",
     referral |-> "", onboardingCategories |-> <<>>]

\* The payloads the authentication library hands to createUser.
UserData == [id : {"", "u1"}, email : {"", NewEmail, AdminEmail}, name : {"", "Ann"}]

\* createId(): an id no row holds.
createId == "c" \o ToString(Cardinality(users) + 1)

\* The pending invitations an installation may hold at start.
InvitationPool == {[email |-> NewEmail, typebotId |-> "t1", type |-> "READ"]}
WorkspaceInvitationPool ==
    {[email |-> NewEmail, workspaceId |-> "w1", type |-> "MEMBER"],
     [email |-> AdminEmail, workspaceId |-> "w1", type |-> "ADMIN"]}

\* getNewUserInvitations(p, email): a pure lookup by invitee email.
getNewUserInvitations(email) ==
    [invitations |-> {i \in invitations : i.email = email},
     workspaceInvitations |-> {i \in workspaceInvitations : i.email = email}]

\* env.ADMIN_EMAIL?.every((email) => email !== user.email): undefined (falsy)
\* when ADMIN_EMAIL is not configured.
AdminEmailEvery(email) ==
    /\ IsDefined(env.ADMIN_EMAIL)
    /\ \A e \in Elems(ValueOf(env.ADMIN_EMAIL)) : e # email

\* env.ADMIN_EMAIL?.includes(email): undefined (falsy) when not configured.
AdminEmailIncludes(email) ==
    /\ IsDefined(env.ADMIN_EMAIL)
    /\ email \in Elems(ValueOf(env.ADMIN_EMAIL))

\* The guard of the "New users are forbidden" throw.
SignupForbidden(email, found) ==
    /\ env.DISABLE_SIGNUP
    /\ AdminEmailEvery(email)
    /\ found.invitations = {}
    /\ found.workspaceInvitations = {}

\* newWorkspaceData.name
newWorkspaceName(data) ==
    IF data.name # "" THEN data.name \o "'s workspace" ELSE "My workspace"

\* A variant of NewUserWorkspaces: the personal workspace is always created.
NewUserWorkspacesAlways(userId, data, wsInvitations) ==
    {[id |-> "ws_" \o userId, name |-> newWorkspaceName(data), role |-> "ADMIN"]}

\* The nested `workspaces` write of p.user.create: nothing when workspace
\* invitations were resolved, else one workspace with the user as ADMIN.
NewUserWorkspaces(userId, data, wsInvitations) ==
    IF Cardinality(wsInvitations) > 0
    THEN {}
    ELSE {[id |-> "ws_" \o userId, name |-> newWorkspaceName(data), role |-> "ADMIN"]}

\* p.user.create fails on a taken id or email (unique columns of the schema).
UserCreateConflict(id, email) ==
    \E u \in users : u.id = id \/ u.email = email

\* The telemetry events createUser collects: "Workspace created" when
\* createdUser.workspaces.pop() yields a workspace, then "User created".
createUserEvents(userId, created) ==
    (IF created # {}
     THEN <<[name |-> "Workspace created",
             workspaceId |-> (CHOOSE w \in created : TRUE).id, userId |-> userId]>>
     ELSE <<>>)
    \o <<[name |-> "User created", workspaceId |-> "", userId |-> userId]>>

WebhookResponses == {"ok", "error"}

\* A variant of UserCreatedWebhook: a failed call is not caught.
UserCreatedWebhookUncaught(response) ==
    IF env.USER_CREATED_WEBHOOK_URL
    THEN [called |-> TRUE, failed |-> response = "error", throws |-> response = "error"]
    ELSE [called |-> FALSE, failed |-> FALSE, throws |-> FALSE]

\* The user-created webhook: called when configured, inside try/catch; a
\* failure is logged and swallowed.
UserCreatedWebhook(response) ==
    IF env.USER_CREATED_WEBHOOK_URL
    THEN [called |-> TRUE, failed |-> response = "error", throws |-> FALSE]
    ELSE [called |-> FALSE, failed |-> FALSE, throws |-> FALSE]

\* convertInvitationsToCollaborations(p, user, invitations): each invitation
\* becomes a collaboration of the user and is consumed.
convertInvitationsToCollaborations(colls, user, invs) ==
    colls \cup {[userId |-> user.id, typebotId |-> i.typebotId, type |-> i.type] : i \in invs}

\* joinWorkspaces(p, user, workspaceInvitations): each invitation becomes a
\* membership with the invited role and is consumed.
joinWorkspaces(mems, user, wsInvs) ==
    mems \cup {[userId |-> user.id, workspaceId |-> i.workspaceId, role |-> i.type] : i \in wsInvs}

CuIdle ==
    [op |-> "none", data |-> [id |-> "", email |-> "", name |-> ""],
     threw |-> "", userId |-> "",
     invitations |-> {}, workspaceInvitations |-> {},
     userCreated |-> FALSE, createdWorkspaces |-> {},
     webhook |-> "none", tracked |-> <<>>,
     convertCalled |-> FALSE, converted |-> {},
     joinCalled |-> FALSE, joined |-> {},
     returned |-> ""]

\* The body of createUser, for the payload it is handed and the answer the
\* webhook gives.
createUserCall(data, response) ==
        LET call == [CuIdle EXCEPT !.op = "createUser", !.data = data]
        IN
        IF data.email = ""
        THEN /\ cuLast' = [call EXCEPT
                   !.threw = "Provider did not forward email but it is required"]
             /\ UNCHANGED <<env, storeVars, vtVars, acVars, siVars, hVars, puVars>>
        ELSE
        LET user == [id |-> IF data.id # "" THEN data.id ELSE createId,
                     email |-> data.email]
            found == getNewUserInvitations(user.email)
            resolved == [call EXCEPT !.userId = user.id,
                                     !.invitations = found.invitations,
                                     !.workspaceInvitations = found.workspaceInvitations]
        IN
        IF SignupForbidden(user.email, found)
        THEN /\ cuLast' = [resolved EXCEPT !.threw = "New users are forbidden"]
             /\ UNCHANGED <<env, storeVars, vtVars, acVars, siVars, hVars, puVars>>
        ELSE IF UserCreateConflict(user.id, user.email)
        THEN /\ cuLast' = [resolved EXCEPT !.threw = "P2002"]
             /\ UNCHANGED <<env, storeVars, vtVars, acVars, siVars, hVars, puVars>>
        ELSE
        LET created == NewUserWorkspaces(user.id, data, found.workspaceInvitations)
            events == createUserEvents(user.id, created)
            hook == UserCreatedWebhook(response)
            afterCreate ==
                [resolved EXCEPT
                    !.userCreated = TRUE,
                    !.createdWorkspaces = {w.id : w \in created},
                    !.webhook = IF ~hook.called THEN "none"
                                ELSE IF hook.failed THEN "failed" ELSE "ok"]
            doConvert == Cardinality(found.invitations) > 0
            doJoin == Cardinality(found.workspaceInvitations) > 0
        IN
        /\ users' = users \cup {UserRow(user.id, user.email, data.name)}
        /\ workspaces' = workspaces \cup {[id |-> w.id, name |-> w.name] : w \in created}
        /\ IF hook.throws
           THEN /\ cuLast' = [afterCreate EXCEPT !.threw = "webhook"]
                /\ members' = members \cup
                       {[userId |-> user.id, workspaceId |-> w.id, role |-> w.role] :
                            w \in created}
                /\ UNCHANGED <<invitations, workspaceInvitations, collaborations>>
           ELSE /\ cuLast' = [afterCreate EXCEPT
                       !.tracked = events,
                       !.convertCalled = doConvert,
                       !.converted = IF doConvert THEN found.invitations ELSE {},
                       !.joinCalled = doJoin,
                       !.joined = IF doJoin THEN found.workspaceInvitations ELSE {},
                       !.returned = user.id]
                /\ members' =
                       LET own == members \cup
                               {[userId |-> user.id, workspaceId |-> w.id, role |-> w.role] :
                                    w \in created}
                       IN IF doJoin
                          THEN joinWorkspaces(own, user, found.workspaceInvitations)
                          ELSE own
                /\ collaborations' =
                       IF doConvert
                       THEN convertInvitationsToCollaborations(
                                collaborations, user, found.invitations)
                       ELSE collaborations
                /\ invitations' =
                       IF doConvert THEN invitations \ found.invitations ELSE invitations
                /\ workspaceInvitations' =
                       IF doJoin THEN workspaceInvitations \ found.workspaceInvitations
                       ELSE workspaceInvitations
        /\ UNCHANGED <<env, vtVars, acVars, siVars, hVars, puVars>>

createUser ==
    /\ \E data \in UserData, response \in WebhookResponses :
           createUserCall(data, response)
    /\ UNCHANGED azVars

----------------------------------------------------------------------------
(* The credentials provider *)

\* The authToken a caller supplies: none (""), the configured code, another.
Credentials == [authToken : {"", "secret", "wrong"}]

\* What ky.get(`${host}/api/typebot/client`) and response.json() may yield: a
\* failure, or the user the remote host describes (with or without an id or
\* an email).
RemoteResponses ==
    {[ok |-> FALSE, user |-> [id |-> "", email |-> "", name |-> ""]]}
        \cup {[ok |-> TRUE, user |-> u] : u \in {d \in UserData : d.name = "Ann"}}

\* What the lookup does when the remote user carries no id: the store client
\* rejects the query, or finds nothing.
MissingIdLookups == {"throw", "null"}

AzIdle ==
    [op |-> "none", authToken |-> "", outbound |-> FALSE, lookup |-> FALSE,
     remote |-> [id |-> "", email |-> "", name |-> ""], found |-> FALSE,
     createCalled |-> FALSE, caught |-> "", threw |-> "",
     result |-> "pending", returnedId |-> "", before |-> {}]

IdleAuthorize == azLast = AzIdle

\* getUser(id): p.user.findUnique({ where: { id } })
getUser(id) ==
    IF \E u \in users : u.id = id
    THEN Some(CHOOSE u \in users : u.id = id)
    ELSE None

\* A variant of AuthorizeCatch: the error leaves authorize.
AuthorizeCatchRethrow(call, error) ==
    [call EXCEPT !.result = "throw", !.threw = error]

\* catch (error) { console.error(...); return null; }
AuthorizeCatch(call, error) ==
    [call EXCEPT !.result = "null", !.caught = error]

\* The webhook's answers that matter: one when no webhook URL is configured.
AuthorizeWebhookResponses ==
    IF env.USER_CREATED_WEBHOOK_URL THEN WebhookResponses
    ELSE {CHOOSE r \in WebhookResponses : TRUE}

authorize ==
    \E credentials \in Credentials, remote \in RemoteResponses,
       response \in AuthorizeWebhookResponses, missingId \in MissingIdLookups :
        LET call == [AzIdle EXCEPT !.op = "authorize",
                                   !.authToken = credentials.authToken,
                                   !.before = users]
            fetched == [call EXCEPT !.outbound = TRUE]
            looked == [fetched EXCEPT !.remote = remote.user, !.lookup = TRUE]
        IN
        IF credentials.authToken # env.TYPEBOT_CODE
        THEN /\ azLast' = [call EXCEPT !.result = "null"]
             /\ UNCHANGED <<env, cuVars, vtVars, acVars, siVars, hVars, puVars>>
        ELSE IF ~remote.ok
        THEN /\ azLast' = AuthorizeCatch(fetched, "HTTPError")
             /\ UNCHANGED <<env, cuVars, vtVars, acVars, siVars, hVars, puVars>>
        ELSE IF remote.user.id = "" /\ missingId = "throw"
        THEN /\ azLast' = AuthorizeCatch(looked, "PrismaClientValidationError")
             /\ UNCHANGED <<env, cuVars, vtVars, acVars, siVars, hVars, puVars>>
        ELSE IF IsDefined(getUser(remote.user.id))
        THEN /\ azLast' = [looked EXCEPT !.found = TRUE, !.result = "user",
                                         !.returnedId = remote.user.id]
             /\ UNCHANGED <<env, cuVars, vtVars, acVars, siVars, hVars, puVars>>
        ELSE /\ createUserCall(remote.user, response)
             /\ azLast' =
                    LET called == [looked EXCEPT !.createCalled = TRUE]
                    IN IF cuLast'.threw # ""
                       THEN AuthorizeCatch(called, cuLast'.threw)
                       ELSE [called EXCEPT !.result = "user",
                                           !.returnedId = cuLast'.returned]

----------------------------------------------------------------------------
(* The signIn callback *)

\* user.email.split("@")[1] for the addresses of the model.
EmailDomain(email) ==
    CASE email = DisposableEmail -> "trash.io"
      [] email = NewEmail -> "corp.io"
      [] email = AdminEmail -> "corp.io"
      [] OTHER -> ""

\* The user payloads the authentication library hands to signIn: a stored
\* user carries createdAt, a new one does not.
SignInUsers ==
    [id : {"u1"}, email : {"", NewEmail, AdminEmail, DisposableEmail},
     createdAt : BOOLEAN]

\* The account payloads: null ("") or the account of a provider.
SignInAccounts == {"", "email", "gitlab"}

\* What the fetch of the disposable-domain block-list may yield.
BlocklistResponses ==
    {[ok |-> FALSE, domains |-> {}],
     [ok |-> TRUE, domains |-> {"mailinator.com"}],
     [ok |-> TRUE, domains |-> {"mailinator.com", "trash.io"}]}

\* The pages the provider's group listing may serve (full_path of each group).
PageContents == {<<>>, <<"B">>, <<"x">>, <<"x", "b">>, <<"c">>}

MaxPages == 2

RECURSIVE PageLists(_)
PageLists(n) ==
    IF n = 0 THEN {<<>>}
    ELSE LET shorter == PageLists(n - 1)
         IN shorter \cup {Append(l, pg) : l \in {x \in shorter : Len(x) = n - 1},
                                           pg \in PageContents}

\* A group listing has at least one page.
GitlabPageLists == {l \in PageLists(MaxPages) : Len(l) >= 1}

\* The X-Next-Page header of page n, parsed: 0 (falsy) on the last page.
XNextPage(pages, n) == IF n < Len(pages) THEN n + 1 ELSE 0

SiIdle ==
    [pc |-> "idle", restricted |-> "", account |-> "",
     user |-> [id |-> "", email |-> "", createdAt |-> FALSE],
     blocklistFetched |-> FALSE, blocklist |-> [ok |-> FALSE, domains |-> {}],
     resolved |-> FALSE,
     serverPages |-> <<>>, page |-> 0, fetches |-> 0, userGroups |-> <<>>,
     tracked |-> <<>>, result |-> "pending", error |-> ""]

IdleSignIn == si = SiIdle

\* const isNewUser = !("createdAt" in user && isDefined(user.createdAt))
isNewUser(user) == ~user.createdAt

SiReturn(s, value) == [s EXCEPT !.pc = "done", !.result = value]
SiThrow(s, message) == [s EXCEPT !.pc = "done", !.result = "throw", !.error = message]

\* getRequiredGroups(provider)
getRequiredGroups(provider) ==
    CASE provider = "gitlab" ->
             IF IsDefined(env.GITLAB_REQUIRED_GROUPS)
             THEN ValueOf(env.GITLAB_REQUIRED_GROUPS) ELSE <<>>
      [] OTHER -> <<>>

LowerCase(g) == IF g = "B" THEN "b" ELSE g

\* A variant of checkHasGroups: group names are compared ignoring case.
checkHasGroupsIgnoreCase(userGroups, requiredGroups) ==
    \E i \in DOMAIN userGroups :
        \E j \in DOMAIN requiredGroups :
            LowerCase(userGroups[i]) = LowerCase(requiredGroups[j])

\* checkHasGroups: userGroups.some((g) => requiredGroups.includes(g))
checkHasGroups(userGroups, requiredGroups) ==
    \E i \in DOMAIN userGroups : userGroups[i] \in Elems(requiredGroups)

\* if (!isNewUser) await trackEvents([...]); return true
SiAllow(s) ==
    IF ~isNewUser(s.user) THEN [s EXCEPT !.pc = "track"] ELSE SiReturn(s, "true")

\* const requiredGroups = getRequiredGroups(account.provider);
\* if (requiredGroups.length > 0) { userGroups = await getUserGroups(account); ... }
SiGroupStage(s) ==
    IF Len(getRequiredGroups(s.account)) > 0
    THEN IF s.account = "gitlab"
         THEN [s EXCEPT !.pc = "groups", !.page = 1]
         ELSE SiReturn(s, IF checkHasGroups(<<>>, getRequiredGroups(s.account))
                          THEN "true" ELSE "false")
    ELSE SiAllow(s)

\* A variant of SiSignupGate: the gate is skipped when no allow-list is configured.
SiSignupGateNeedsAllowList(s) ==
    IF /\ env.DISABLE_SIGNUP
       /\ isNewUser(s.user)
       /\ s.user.email # ""
       /\ IsDefined(env.ADMIN_EMAIL)
       /\ ~AdminEmailIncludes(s.user.email)
    THEN [s EXCEPT !.pc = "invitations"]
    ELSE SiGroupStage(s)

\* if (env.DISABLE_SIGNUP && isNewUser && user.email &&
\*     !env.ADMIN_EMAIL?.includes(user.email)) { await getNewUserInvitations ... }
SiSignupGate(s) ==
    IF /\ env.DISABLE_SIGNUP
       /\ isNewUser(s.user)
       /\ s.user.email # ""
       /\ ~AdminEmailIncludes(s.user.email)
    THEN [s EXCEPT !.pc = "invitations"]
    ELSE SiGroupStage(s)

\* if (isNewUser && user.email && (!env.ADMIN_EMAIL ||
\*     !env.ADMIN_EMAIL.includes(user.email)) && env.REJECT_DISPOSABLE_EMAILS)
SiDisposableGate(s) ==
    IF /\ isNewUser(s.user)
       /\ s.user.email # ""
       /\ (~IsDefined(env.ADMIN_EMAIL) \/ ~AdminEmailIncludes(s.user.email))
       /\ env.REJECT_DISPOSABLE_EMAILS
    THEN [s EXCEPT !.pc = "disposable"]
    ELSE SiSignupGate(s)

\* signIn({ account, user }) up to its first await.
signInStart(restricted, account, user) ==
    LET s == [SiIdle EXCEPT !.restricted = restricted, !.account = account,
                            !.user = user]
    IN IF restricted = "rate-limited" THEN SiThrow(s, "rate-limited")
       ELSE IF account = "" THEN SiReturn(s, "false")
       ELSE SiDisposableGate(s)

\* The authentication library invokes the signIn callback of
\* getAuthOptions({ restricted }).
signInCall ==
    \E restricted \in {"", "rate-limited"}, account \in SignInAccounts,
       user \in SignInUsers :
        /\ si.pc \in {"idle", "done"}
        /\ si' = signInStart(restricted, account, user)
        /\ UNCHANGED <<env, cuVars, vtVars, acVars, hVars, puVars, azVars>>

\* await ky.get(<block-list url>).text(), then the domain test.
signInFetchBlocklist ==
    \E response \in BlocklistResponses :
        /\ si.pc = "disposable"
        /\ LET s == [si EXCEPT !.blocklistFetched = TRUE, !.blocklist = response]
           IN si' = IF ~response.ok THEN SiThrow(s, "HTTPError")
                    ELSE IF EmailDomain(s.user.email) \in response.domains
                    THEN SiReturn(s, "false")
                    ELSE SiSignupGate(s)
        /\ UNCHANGED <<env, cuVars, vtVars, acVars, hVars, puVars, azVars>>

\* await getNewUserInvitations(prisma, user.email), then the empty test.
signInResolveInvitations ==
    /\ si.pc = "invitations"
    /\ LET found == getNewUserInvitations(si.user.email)
           s == [si EXCEPT !.resolved = TRUE]
       IN si' = IF /\ Cardinality(found.invitations) = 0
                   /\ Cardinality(found.workspaceInvitations) = 0
                THEN SiThrow(s, "sign-up-disabled")
                ELSE SiGroupStage(s)
    /\ UNCHANGED <<env, cuVars, vtVars, acVars, hVars, puVars, azVars>>

\* getGitlabGroups after the response of page s.page: the page's groups are
\* accumulated; a truthy X-Next-Page is followed, else the accumulated
\* full_paths go to checkHasGroups, whose value signIn returns.
SiAfterPage(s, pages) ==
    LET groups == s.userGroups \o pages[s.page]
        nextPage == XNextPage(pages, s.page)
        got == [s EXCEPT !.serverPages = pages, !.fetches = @ + 1,
                         !.userGroups = groups]
    IN IF nextPage # 0
       THEN [got EXCEPT !.page = nextPage]
       ELSE SiReturn(got, IF checkHasGroups(groups, getRequiredGroups(s.account))
                          THEN "true" ELSE "false")

\* await fetch(<groups url>?per_page=100&page=N): the provider answers from
\* the user's group listing, which is fixed when the first page is asked for.
signInFetchGroups ==
    /\ si.pc = "groups"
    /\ \E pages \in GitlabPageLists :
           /\ (si.page > 1) => pages = si.serverPages
           /\ si' = SiAfterPage(si, pages)
    /\ UNCHANGED <<env, cuVars, vtVars, acVars, hVars, puVars, azVars>>

\* await trackEvents([{ name: "User logged in", userId: user.id }]); return true
signInTrack ==
    /\ si.pc = "track"
    /\ si' = SiReturn([si EXCEPT !.tracked =
                           Append(@, [name |-> "User logged in", userId |-> si.user.id])],
                      "true")
    /\ UNCHANGED <<env, cuVars, vtVars, acVars, hVars, puVars, azVars>>

signInSteps ==
    \/ signInFetchBlocklist
    \/ signInResolveInvitations
    \/ signInFetchGroups
    \/ signInTrack

----------------------------------------------------------------------------
(* The auth route handler and the e-mail sign-in rate limiter *)

\* Ratelimit.slidingWindow(1, "60 s"): one token per window.
RateLimitTokens == 1

\* Clock ticks per 60 s window, and the last tick of the clock.
WindowTicks == 2
MaxTime == 3

EmailSigninUrls ==
    {"/api/auth/signin/email", "/api/auth/signin/email?callbackUrl=%2Ftypebots"}

Requests ==
    [method : {"HEAD", "GET", "POST"},
     url : EmailSigninUrls \cup {"/api/auth/session", "/api/auth/callback/gitlab"},
     ip : {"", "10.0.0.1", "10.0.0.2"}]

\* The route handler before any request.
HIdle ==
    [response |-> "none", restricted |-> "", emailPost |-> FALSE, ip |-> "",
     afterAdmitted |-> FALSE]

\* req.url?.startsWith("/api/auth/signin/email")
StartsWithEmailSignin(url) == url \in EmailSigninUrls

\* The user payloads the library builds for a request.
HandlerUsers == [id : {"u1"}, email : {NewEmail}, createdAt : BOOLEAN]

RlGet(key) == IF key \in DOMAIN rlCount THEN rlCount[key] ELSE 0

\* emailSignInRateLimiter.limit(ip), the sliding window of @upstash/ratelimit:
\* it weighs the previous window's count by the share of that window still
\* inside the trailing 60 s (rounded down), adds the current window's count,
\* and admits the request, counting it, only while the sum is below the
\* token count.  A refused request is not counted.
RateLimit(ip) ==
    LET window == now \div WindowTicks
        offset == now % WindowTicks
        current == RlGet(<<ip, window>>)
        previous == ((WindowTicks - offset) * RlGet(<<ip, window - 1>>)) \div WindowTicks
    IN IF previous + current >= RateLimitTokens
       THEN [success |-> FALSE, counts |-> rlCount]
       ELSE [success |-> TRUE,
             counts |-> [k \in DOMAIN rlCount \cup {<<ip, window>>} |->
                            IF k = <<ip, window>> THEN current + 1 ELSE rlCount[k]]]

\* A variant of RestrictedTag: a refused request is not tagged.
RestrictedTagNever(success) == ""

\* if (!success) restricted = "rate-limited"
RestrictedTag(success) == IF ~success THEN "rate-limited" ELSE ""

\* NextAuth(req, res, options): the provider whose sign-in flow the request
\* runs, "" when the request runs none (the signIn callback is not invoked).
NextAuthSignInProvider(req) ==
    IF req.method = "POST" /\ StartsWithEmailSignin(req.url) THEN "email"
    ELSE IF req.url = "/api/auth/callback/gitlab" THEN "gitlab"
    ELSE ""

handler ==
    \E req \in Requests, user \in HandlerUsers :
        /\ si.pc \in {"idle", "done"}
        /\ LET call == HIdle
               isMockingSession ==
                   /\ req.method = "GET"
                   /\ req.url = "/api/auth/session"
                   /\ env.NEXT_PUBLIC_E2E_TEST
               isEmailPost == req.method = "POST" /\ StartsWithEmailSignin(req.url)
               limited == env.REDIS_URL /\ isEmailPost /\ req.ip # ""
               limit == IF limited THEN RateLimit(req.ip)
                        ELSE [success |-> TRUE, counts |-> rlCount]
               restricted == IF limited THEN RestrictedTag(limit.success) ELSE ""
               provider == NextAuthSignInProvider(req)
           IN IF req.method = "HEAD"
              THEN /\ hLast' = [call EXCEPT !.response = "200"]
                   /\ UNCHANGED <<si, rlCount, admitted>>
              ELSE IF isMockingSession
              THEN /\ hLast' = [call EXCEPT !.response = "mockedUser"]
                   /\ UNCHANGED <<si, rlCount, admitted>>
              ELSE /\ rlCount' = limit.counts
                   /\ hLast' = [call EXCEPT
                          !.response = "NextAuth",
                          !.restricted = restricted,
                          !.emailPost = isEmailPost,
                          !.ip = req.ip,
                          !.afterAdmitted =
                              isEmailPost /\ <<req.ip, now \div WindowTicks>> \in admitted]
                   /\ admitted' =
                          IF isEmailPost /\ req.ip # "" /\ restricted = ""
                          THEN admitted \cup {<<req.ip, now \div WindowTicks>>}
                          ELSE admitted
                   /\ si' = IF provider # ""
                            THEN signInStart(restricted, provider, user)
                            ELSE SiIdle
        /\ UNCHANGED <<env, cuVars, vtVars, acVars, now, puVars, azVars>>

\* Time passes.
Tick ==
    /\ now < MaxTime
    /\ now' = now + 1
    /\ UNCHANGED <<env, cuVars, vtVars, acVars, siVars, rlCount, admitted, hLast,
                   puVars, azVars>>

----------------------------------------------------------------------------
(* Specifications *)

IdleHandler ==
    /\ now = 0
    /\ rlCount = [k \in {} |-> 0]
    /\ admitted = {}
    /\ hLast = HIdle

(* The user endpoint: apps/builder/src/pages/api/users/[userId].ts *)

MaxPatch == 1
MaxFields == 1

\* The fields of Partial<User> a payload may carry.
PayloadFields == {"image", "company", "referral", "name", "onboardingCategories"}

\* A JSON value of a payload: a string or an array of strings.
StringValue(s) == [type |-> "string", text |-> s, items |-> <<>>]
ArrayValue(a) == [type |-> "array", text |-> "", items |-> a]

\* The values a payload may supply for a field: a string (possibly empty),
\* or, for onboardingCategories, an array (possibly empty).
PayloadValues(f) ==
    IF f = "onboardingCategories"
    THEN {ArrayValue(<<>>), ArrayValue(<<"c">>)}
    ELSE {StringValue(""), StringValue("x")}

\* The payloads: partial user objects with at most MaxFields fields.
Payloads ==
    UNION {{d \in [S -> UNION {PayloadValues(f) : f \in S}] :
                \A f \in S : d[f] \in PayloadValues(f)} :
           S \in {T \in SUBSET PayloadFields : Cardinality(T) <= MaxFields}}

\* req.body: an object, the JSON text of one, or a text that is not JSON.
Bodies ==
    [kind : {"object", "text"}, data : Payloads]
        \cup {[kind |-> "malformed", data |-> <<>>]}

\* getAuthenticatedUser: the session's user id, "" without a session.
SessionUsers == {"", "u1", "u2"}

\* req.query.userId
PathIds == {"u1", "u2", "u9"}

Methods == {"PATCH", "GET"}

PuIdle ==
    [op |-> "none", method |-> "", caller |-> "", id |-> "", data |-> <<>>,
     status |-> 0, threw |-> "", tracked |-> <<>>, before |-> {}]

IdleUserEndpoint ==
    /\ puLast = PuIdle
    /\ patchCount = 0

\* JavaScript truthiness of a supplied value: an empty string is falsy, every
\* array (the empty one included) is truthy.
Truthy(v) == v.type = "array" \/ v.text # ""

\* data.onboardingCategories || data.referral || data.company || data.name
TracksUpdate(data) ==
    \E f \in {"onboardingCategories", "referral", "company", "name"} :
        f \in DOMAIN data /\ Truthy(data[f])

\* prisma.user.update's data applied to a row: supplied fields overwrite.
UpdatedRow(row, data) ==
    [f \in DOMAIN row |->
        IF f \in DOMAIN data
        THEN (IF data[f].type = "array" THEN data[f].items ELSE data[f].text)
        ELSE row[f]]

usersHandler ==
    /\ patchCount < MaxPatch
    /\ \E caller \in SessionUsers, id \in PathIds, method \in Methods, body \in Bodies :
          LET call == [PuIdle EXCEPT !.op = "request", !.method = method,
                                     !.caller = caller, !.id = id,
                                     !.before = users]
          IN  IF caller = ""
              THEN /\ puLast' = [call EXCEPT !.status = 401]
                   /\ UNCHANGED users
              ELSE IF method # "PATCH"
              THEN /\ puLast' = [call EXCEPT !.status = 405]
                   /\ UNCHANGED users
              ELSE IF body.kind = "malformed"
              THEN /\ puLast' = [call EXCEPT !.threw = "SyntaxError"]
                   /\ UNCHANGED users
              ELSE IF ~\E u \in users : u.id = id
              THEN /\ puLast' = [call EXCEPT !.data = body.data, !.threw = "P2025"]
                   /\ UNCHANGED users
              ELSE LET row == CHOOSE u \in users : u.id = id
                   IN  /\ users' = (users \ {row}) \cup {UpdatedRow(row, body.data)}
                       /\ puLast' = [call EXCEPT
                              !.data = body.data,
                              !.status = 200,
                              !.tracked =
                                  IF TracksUpdate(body.data)
                                  THEN <<[name |-> "User updated", userId |-> caller]>>
                                  ELSE <<>>]
    /\ patchCount' = patchCount + 1
    /\ UNCHANGED <<env, workspaces, members, invitations, workspaceInvitations,
                   collaborations, cuLast, vtVars, acVars, siVars, hVars, azVars>>

InitCreateUser ==
    /\ env \in {[EnvDefault EXCEPT !.DISABLE_SIGNUP = d, !.ADMIN_EMAIL = a,
                                   !.USER_CREATED_WEBHOOK_URL = w] :
                    d \in BOOLEAN, a \in AdminEmailSettings, w \in BOOLEAN}
    /\ users = {}
    /\ workspaces = {[id |-> "w1", name |-> "Team"]}
    /\ members = {}
    /\ invitations \in SUBSET InvitationPool
    /\ workspaceInvitations \in SUBSET WorkspaceInvitationPool
    /\ collaborations = {}
    /\ cuLast = CuIdle
    /\ IdleVerificationTokens
    /\ IdleAccounts
    /\ IdleSignIn
    /\ IdleHandler
    /\ IdleUserEndpoint
    /\ IdleAuthorize

NextCreateUser == createUser

SpecCreateUser == InitCreateUser /\ [][NextCreateUser]_vars

IdleCreateUser ==
    /\ users = {}
    /\ workspaces = {}
    /\ members = {}
    /\ invitations = {}
    /\ workspaceInvitations = {}
    /\ collaborations = {}
    /\ cuLast = CuIdle

InitVerificationToken ==
    /\ env = EnvDefault
    /\ IdleCreateUser
    /\ IdleVerificationTokens
    /\ IdleAccounts
    /\ IdleSignIn
    /\ IdleHandler
    /\ IdleUserEndpoint
    /\ IdleAuthorize

NextVerificationToken ==
    \/ createVerificationToken
    \/ \E c \in Callers : useVerificationTokenCall(c)
    \/ \E c \in Callers : useVerificationTokenDelete(c)
    \/ \E c \in Callers : useVerificationTokenCatch(c)

SpecVerificationToken == InitVerificationToken /\ [][NextVerificationToken]_vars

InitAccount ==
    /\ env = EnvDefault
    /\ IdleCreateUser
    /\ IdleVerificationTokens
    /\ IdleAccounts
    /\ IdleSignIn
    /\ IdleHandler
    /\ IdleUserEndpoint
    /\ IdleAuthorize

NextAccount == linkAccount \/ unlinkAccount

SpecAccount == InitAccount /\ [][NextAccount]_vars

InitSignIn ==
    /\ env \in {[EnvDefault EXCEPT !.DISABLE_SIGNUP = d, !.ADMIN_EMAIL = a,
                                   !.REJECT_DISPOSABLE_EMAILS = r,
                                   !.GITLAB_REQUIRED_GROUPS = g] :
                    d \in BOOLEAN, a \in {None, Some(<<AdminEmail>>)},
                    r \in BOOLEAN, g \in RequiredGroupSettings}
    /\ users = {}
    /\ workspaces = {[id |-> "w1", name |-> "Team"]}
    /\ members = {}
    /\ invitations \in SUBSET InvitationPool
    /\ workspaceInvitations \in SUBSET {i \in WorkspaceInvitationPool : i.email = NewEmail}
    /\ collaborations = {}
    /\ cuLast = CuIdle
    /\ IdleVerificationTokens
    /\ IdleAccounts
    /\ IdleSignIn
    /\ IdleHandler
    /\ IdleUserEndpoint
    /\ IdleAuthorize

NextSignIn == signInCall \/ signInSteps

SpecSignIn == InitSignIn /\ [][NextSignIn]_vars

\* The installations the route handler is checked on.
HandlerEnvs ==
    {[EnvDefault EXCEPT !.REDIS_URL = TRUE],
     [EnvDefault EXCEPT !.REDIS_URL = TRUE, !.DISABLE_SIGNUP = TRUE,
                        !.REJECT_DISPOSABLE_EMAILS = TRUE],
     [EnvDefault EXCEPT !.NEXT_PUBLIC_E2E_TEST = TRUE]}

InitHandler ==
    /\ env \in HandlerEnvs
    /\ IdleCreateUser
    /\ IdleVerificationTokens
    /\ IdleAccounts
    /\ IdleSignIn
    /\ IdleHandler
    /\ IdleUserEndpoint
    /\ IdleAuthorize

\* No installation of HandlerEnvs configures required groups, so the callback
\* never fetches a group listing here.
NextHandler ==
    \/ handler
    \/ Tick
    \/ signInFetchBlocklist
    \/ signInResolveInvitations
    \/ signInTrack

SpecHandler == InitHandler /\ [][NextHandler]_vars

InitUsers ==
    /\ env = EnvDefault
    /\ users \in {{UserRow("u1", NewEmail, n), UserRow("u2", AdminEmail, "Root")} :
                    n \in {"", "Ann"}}
    /\ workspaces = {}
    /\ members = {}
    /\ invitations = {}
    /\ workspaceInvitations = {}
    /\ collaborations = {}
    /\ cuLast = CuIdle
    /\ IdleVerificationTokens
    /\ IdleAccounts
    /\ IdleSignIn
    /\ IdleHandler
    /\ IdleUserEndpoint
    /\ IdleAuthorize

NextUsers == usersHandler

SpecUsers == InitUsers /\ [][NextUsers]_vars

InitAuthorize ==
    /\ env \in {[EnvDefault EXCEPT !.DISABLE_SIGNUP = d, !.ADMIN_EMAIL = a,
                                   !.TYPEBOT_CODE = c] :
                    d \in BOOLEAN, a \in {None, Some(<<AdminEmail>>)},
                    c \in {"", "secret"}}
    /\ users \in {{}, {UserRow("u1", NewEmail, "Ann")}}
    /\ workspaces = {[id |-> "w1", name |-> "Team"]}
    /\ members = {}
    /\ invitations = {}
    /\ workspaceInvitations = {}
    /\ collaborations = {}
    /\ cuLast = CuIdle
    /\ IdleVerificationTokens
    /\ IdleAccounts
    /\ IdleSignIn
    /\ IdleHandler
    /\ IdleUserEndpoint
    /\ IdleAuthorize

NextAuthorize == authorize

SpecAuthorize == InitAuthorize /\ [][NextAuthorize]_vars

----------------------------------------------------------------------------
(* Claims about createUser *)

CreateUserCalled == cuLast.op = "createUser"

\* The membership rows a workspace invitation set grants to a user.
InvitedMemberships(userId, wsInvs) ==
    {[userId |-> userId, workspaceId |-> i.workspaceId, role |-> i.type] : i \in wsInvs}

\* C1: for every email not on the admin allow-list (an unconfigured
\* allow-list included), with signup disabled and no invitation of either
\* kind resolved for the email, createUser throws the signup-disabled error
\* and creates no user record.
C1_SignupDisabledRejects ==
    (/\ CreateUserCalled
     /\ cuLast.data.email # ""
     /\ env.DISABLE_SIGNUP
     /\ ~AdminEmailIncludes(cuLast.data.email)
     /\ cuLast.invitations = {}
     /\ cuLast.workspaceInvitations = {})
    => (/\ cuLast.threw = "New users are forbidden"
        /\ ~cuLast.userCreated)

\* C2: a successful createUser takes exactly one of two paths.  With a
\* resolved workspace invitation: no workspace is created, no "Workspace
\* created" event is tracked, and joinWorkspaces makes the user a member of
\* every invited workspace.  With none: exactly one workspace is created,
\* the user is its ADMIN, and joinWorkspaces is not called.
C2_WorkspaceOrInvitations ==
    (CreateUserCalled /\ cuLast.threw = "")
    => LET invitedPath ==
               /\ cuLast.createdWorkspaces = {}
               /\ \A k \in DOMAIN cuLast.tracked :
                      cuLast.tracked[k].name # "Workspace created"
               /\ ~\E m \in members :
                      m.userId = cuLast.userId /\ m.workspaceId = "ws_" \o cuLast.userId
               /\ cuLast.joinCalled
               /\ cuLast.joined = cuLast.workspaceInvitations
               /\ InvitedMemberships(cuLast.userId, cuLast.workspaceInvitations)
                      \subseteq members
           personalPath ==
               /\ Cardinality(cuLast.createdWorkspaces) = 1
               /\ \A w \in cuLast.createdWorkspaces :
                      /\ \E r \in workspaces : r.id = w
                      /\ [userId |-> cuLast.userId, workspaceId |-> w, role |-> "ADMIN"]
                             \in members
               /\ Len(cuLast.tracked) = 2
               /\ cuLast.tracked[1].name = "Workspace created"
               /\ cuLast.tracked[1].workspaceId \in cuLast.createdWorkspaces
               /\ ~cuLast.joinCalled
               /\ {m \in members : m.userId = cuLast.userId}
                      = {[userId |-> cuLast.userId, workspaceId |-> w, role |-> "ADMIN"] :
                             w \in cuLast.createdWorkspaces}
       IN /\ (cuLast.workspaceInvitations # {}) => (invitedPath /\ ~personalPath)
          /\ (cuLast.workspaceInvitations = {}) => (personalPath /\ ~invitedPath)

\* C2 witness: a created user who had a pending workspace invitation.
C2_Witness ==
    /\ CreateUserCalled
    /\ cuLast.threw = ""
    /\ cuLast.workspaceInvitations # {}
    /\ cuLast.joinCalled

\* What a completed createUser has done, whatever the webhook did.
CreateUserCompleted ==
    /\ cuLast.threw = ""
    /\ cuLast.userCreated
    /\ cuLast.returned = cuLast.userId
    /\ \E u \in users : u.id = cuLast.userId /\ u.email = cuLast.data.email
    /\ Len(cuLast.tracked) = 1 + Cardinality(cuLast.createdWorkspaces)
    /\ cuLast.tracked[Len(cuLast.tracked)] =
           [name |-> "User created", workspaceId |-> "", userId |-> cuLast.userId]
    /\ cuLast.convertCalled = (cuLast.invitations # {})
    /\ cuLast.converted = cuLast.invitations
    /\ \A i \in cuLast.invitations :
           [userId |-> cuLast.userId, typebotId |-> i.typebotId, type |-> i.type]
               \in collaborations
    /\ cuLast.joinCalled = (cuLast.workspaceInvitations # {})
    /\ cuLast.joined = cuLast.workspaceInvitations
    /\ InvitedMemberships(cuLast.userId, cuLast.workspaceInvitations) \subseteq members

\* C10: a failed user-created webhook never fails createUser: the call
\* still tracks its events, converts the direct invitations, joins the
\* workspace invitations and returns the user, as a call whose webhook
\* succeeded or was not configured does.
C10_WebhookFailureSwallowed ==
    CreateUserCalled
    => /\ (cuLast.webhook = "failed") => CreateUserCompleted
       /\ (cuLast.threw = "") => CreateUserCompleted
       /\ cuLast.userCreated => cuLast.threw = ""

\* C10 witness: the webhook failed for a user with invitations of both kinds.
C10_Witness ==
    /\ CreateUserCalled
    /\ cuLast.webhook = "failed"
    /\ cuLast.invitations # {}
    /\ cuLast.workspaceInvitations # {}
    /\ cuLast.returned # ""

----------------------------------------------------------------------------
(* Claims about verification tokens *)

\* The returned calls for `key` whose delete reached the store, without a
\* store fault, after the token was created.
ServedCalls(key) ==
    {c \in Callers : /\ vtCalls[c].pc = "done"
                     /\ vtCalls[c].key = key
                     /\ vtCalls[c].afterCreate
                     /\ ~vtCalls[c].fault}

\* C3: a verification token is single-use.  Of the calls of
\* useVerificationToken made, in sequence or interleaved, for one stored
\* (identifier, token) pair, exactly one returns the token record and every
\* other returns null; none throws, and the row is gone afterwards.  A store
\* fault other than "record not found" is rethrown, never turned into null.
C3_TokenSingleUse ==
    /\ \A key \in TokenKeys :
           (vtCreated[key] = 1 /\ ServedCalls(key) # {})
           => /\ Cardinality({c \in ServedCalls(key) :
                                  /\ vtCalls[c].result = "record"
                                  /\ vtCalls[c].row = TokenRow(key)}) = 1
              /\ \A c \in ServedCalls(key) : vtCalls[c].result \in {"record", "null"}
              /\ ~\E r \in verificationTokens : KeyOf(r) = key
    /\ \A c \in Callers :
           vtCalls[c].pc = "done"
           => /\ vtCalls[c].fault
                  => (vtCalls[c].result = "throw" /\ vtCalls[c].error \in StoreFaultCodes)
              /\ (vtCalls[c].result = "throw") => vtCalls[c].fault

\* C3 witness: two calls for the same stored pair have returned, one with
\* the record and one with null.
C3_Witness ==
    \E c, d \in Callers :
        /\ c # d
        /\ vtCalls[c].key = vtCalls[d].key
        /\ {c, d} \subseteq ServedCalls(vtCalls[c].key)
        /\ vtCalls[c].result = "record"
        /\ vtCalls[d].result = "null"

----------------------------------------------------------------------------
(* Claims about account links *)

\* C4: the store holds at most one Account per (provider,
\* providerAccountId) pair; a linkAccount for a pair that is already linked
\* fails and leaves the existing row (its user id and token material) as it
\* was.
C4_AccountLinkUnique ==
    /\ \A a, b \in accounts : AccountKeyOf(a) = AccountKeyOf(b) => a = b
    /\ (/\ acLast.op = "linkAccount"
        /\ \E a \in acLast.before : AccountKeyOf(a) = acLast.key)
       => (acLast.threw # "" /\ accounts = acLast.before)

\* C4 witness: a second linkAccount for a linked pair, by another user, failed.
C4_Witness ==
    /\ acLast.op = "linkAccount"
    /\ acLast.threw # ""
    /\ \E a \in accounts : AccountKeyOf(a) = acLast.key /\ a.userId # acLast.userId

----------------------------------------------------------------------------
(* Claims about the signIn callback and the route handler *)

SignInDone == si.pc = "done"

LoginEvents == {k \in DOMAIN si.tracked : si.tracked[k].name = "User logged in"}

\* Both invitation lists of the email are empty.
NoInvitationFor(email) ==
    /\ ~\E i \in invitations : i.email = email
    /\ ~\E i \in workspaceInvitations : i.email = email

\* The disposable-email stage ended the attempt: it applied, and the
\* block-list fetch failed or listed the email's domain.
DisposableStageStops ==
    /\ ~si.user.createdAt
    /\ si.user.email # ""
    /\ ~AdminEmailIncludes(si.user.email)
    /\ env.REJECT_DISPOSABLE_EMAILS
    /\ (~si.blocklist.ok \/ EmailDomain(si.user.email) \in si.blocklist.domains)

\* The signup stage ended the attempt.
SignupStageStops ==
    /\ env.DISABLE_SIGNUP
    /\ ~si.user.createdAt
    /\ si.user.email # ""
    /\ ~AdminEmailIncludes(si.user.email)
    /\ NoInvitationFor(si.user.email)

\* The attempt passed every stage before the group check.
EarlierGatesPass ==
    /\ si.restricted = ""
    /\ si.account # ""
    /\ ~DisposableStageStops
    /\ ~SignupStageStops

\* The required-group set configured for a provider ({} when none is).
ConfiguredGroups(provider) ==
    IF provider = "gitlab" /\ IsDefined(env.GITLAB_REQUIRED_GROUPS)
    THEN Elems(ValueOf(env.GITLAB_REQUIRED_GROUPS))
    ELSE {}

\* Every group of every page of the user's listing.
ListedGroups == UNION {Elems(si.serverPages[n]) : n \in DOMAIN si.serverPages}

C6_GroupCheck ==
    (SignInDone /\ EarlierGatesPass)
    => IF ConfiguredGroups(si.account) # {}
       THEN /\ si.result \in {"true", "false"}
            /\ (si.result = "true") <=> (ListedGroups \cap ConfiguredGroups(si.account) # {})
            /\ si.fetches = Len(si.serverPages)
            /\ si.fetches >= 1
       ELSE /\ si.fetches = 0
            /\ si.result = "true"

\* C6 witness: an attempt allowed by a group found on the second page only.
C6_Witness ==
    /\ SignInDone
    /\ EarlierGatesPass
    /\ si.result = "true"
    /\ si.fetches = 2
    /\ Elems(si.serverPages[1]) \cap ConfiguredGroups(si.account) = {}

\* The case C8 is about: a new user with an email off the allow-list, signup
\* disabled, no invitation of either kind.
SignupDisabledCase ==
    /\ SignInDone
    /\ si.restricted = ""
    /\ si.account # ""
    /\ ~si.user.createdAt
    /\ si.user.email # ""
    /\ env.DISABLE_SIGNUP
    /\ ~AdminEmailIncludes(si.user.email)
    /\ NoInvitationFor(si.user.email)

SignupDisabledThrown ==
    /\ si.result = "throw"
    /\ si.error = "sign-up-disabled"
    /\ si.fetches = 0
    /\ si.tracked = <<>>

\* C8 as claimed: in that case signIn always throws the sign-up-disabled
\* error, before any group fetch or telemetry event.
C8_SignupDisabledThrows == SignupDisabledCase => SignupDisabledThrown

\* C8 as amended: in that case, unless the disposable-email stage ended the
\* attempt first (rejection enabled and the block-list fetch failed or
\* listed the email's domain), signIn throws the sign-up-disabled error,
\* before any group fetch or telemetry event.
C8_SignupDisabledThrowsUnlessDisposable ==
    (SignupDisabledCase /\ ~DisposableStageStops) => SignupDisabledThrown

\* C8 witness: the block-list was fetched, did not list the domain, and the
\* signup stage threw.
C8_Witness ==
    /\ SignupDisabledCase
    /\ si.blocklistFetched
    /\ si.blocklist.ok
    /\ si.error = "sign-up-disabled"

\* C9: an allowed attempt of a returning user tracks exactly one "User
\* logged in" event, whatever the provider and whether or not a
\* required-group set is configured; a new user's attempt, a denied one and
\* a failed one track none.
C9_LoginEventOnAllow ==
    SignInDone
    => /\ (si.user.createdAt /\ si.result = "true") => Cardinality(LoginEvents) = 1
       /\ (~si.user.createdAt \/ si.result # "true") => Cardinality(LoginEvents) = 0

----------------------------------------------------------------------------
(* Claims about the user endpoint *)

UpdateEvents ==
    {k \in DOMAIN puLast.tracked : puLast.tracked[k].name = "User updated"}

\* C7: an authenticated PATCH that updated the record tracks exactly one
\* "User updated" event when its payload includes at least one of
\* onboardingCategories, referral, company or name, whatever the value
\* supplied, and none when the payload holds only other fields.
C7_UpdateEventIffTrackedField ==
    (puLast.op = "request" /\ puLast.status = 200)
    => Cardinality(UpdateEvents) =
           (IF DOMAIN puLast.data
                   \cap {"onboardingCategories", "referral", "company", "name"} # {}
            THEN 1 ELSE 0)

\* C11: a request of the user endpoint modifies no record but the
\* authenticated caller's own: when the path userId differs from the
\* caller's id every user row is as it was before the request; and a request
\* without a session, whatever its method, modifies no row and tracks no
\* event.
C11_OnlyCallersRecord ==
    (puLast.op = "request")
    => /\ (puLast.caller # puLast.id) => users = puLast.before
       /\ \A u \in users : (u \notin puLast.before) => u.id = puLast.caller
       /\ (puLast.caller = "")
              => (users = puLast.before /\ puLast.tracked = <<>> /\ puLast.status = 401)

----------------------------------------------------------------------------
(* Claims about the credentials provider *)

AuthorizeCalled == azLast.op = "authorize"

\* C12: authorize returns null whenever the supplied authToken differs from
\* the configured code, and then makes no outbound request, no user lookup
\* and no user creation; with a matching token createUser is called only
\* when no user holds the id the remote host returned; and a failure of the
\* remote fetch or of createUser ends in null, never in an error leaving
\* authorize.
C12_AuthorizeNullOnMismatchOrFailure ==
    AuthorizeCalled
    => /\ (azLast.authToken # env.TYPEBOT_CODE)
              => /\ azLast.result = "null"
                 /\ ~azLast.outbound
                 /\ ~azLast.lookup
                 /\ ~azLast.createCalled
                 /\ users = azLast.before
       /\ azLast.createCalled
              => /\ azLast.authToken = env.TYPEBOT_CODE
                 /\ azLast.outbound
                 /\ azLast.lookup
                 /\ ~\E u \in azLast.before : u.id = azLast.remote.id
                 /\ cuLast.op = "createUser"
                 /\ cuLast.data = azLast.remote
       /\ (~azLast.createCalled) => users = azLast.before
       /\ (azLast.outbound /\ ~azLast.lookup) => azLast.result = "null"
       /\ (azLast.createCalled /\ cuLast.threw # "") => azLast.result = "null"
       /\ azLast.result \in {"null", "user"}
       /\ azLast.threw = ""

\* C12 witness: with the matching token and an unknown remote id, createUser
\* was called, refused the signup, and authorize returned null.
C12_Witness ==
    /\ AuthorizeCalled
    /\ azLast.authToken = env.TYPEBOT_CODE
    /\ azLast.createCalled
    /\ cuLast.threw = "New users are forbidden"
    /\ azLast.result = "null"

====
